---- MODULE Spec2Model ----
(***************************************************************************)
(* One run of HybridPipeline.Execute (internal/orchestrator/pipeline.go)   *)
(* over a ModelBridge (internal/modelbridge/bridge.go) whose two clients   *)
(* are arbitrary implementations of the ModelClient interface.  The        *)
(* streaming relay of CallReasonerStream is modelled task by task: the     *)
(* client's producer goroutine, the Bridge's forwarding goroutine and the  *)
(* ReasonerEngine's receive loop, joined by two unbuffered channels.       *)
(*                                                                         *)
(* Three further specifications stand beside that of the run, each on      *)
(* variables of its own: one ModelBridge shared by concurrent callers      *)
(* (BridgeSpec), concurrent runs of Execute on one pipeline (RunsSpec),    *)
(* and one request through the deep-model client of                        *)
(* internal/clients/reasoner.go (ParamSpec).                               *)
(***************************************************************************)
EXTENDS Naturals, Sequences, FiniteSets, TLC

(***************************************************************************)
(* Bounds of the model.                                                    *)
(***************************************************************************)
\* the largest number of partial responses one deep-model stream emits
MaxDeltas == 3

\* the number of goroutines that call one shared Bridge at the same time
NumCallers == 2

\* the number of runs of Execute in flight on one pipeline at the same time
NumRuns == 2

(***************************************************************************)
(* Data: internal/models/types.go                                          *)
(***************************************************************************)
ChatCompletionMessage(role, content, reasoning) ==
    [Role |-> role, Content |-> content, ReasoningContent |-> reasoning]

ChatCompletionChoice(msg, finish) ==
    [Message |-> msg, FinishReason |-> finish]

\* a *ChatCompletionResponse: a nil pointer, or a response with its choices
ChatCompletionResponse(choices) ==
    [isNil |-> FALSE, Choices |-> choices]

NilResponse ==
    [isNil |-> TRUE, Choices |-> <<>>]

\* a choice as a backend produces it
Delta(content, reasoning) ==
    ChatCompletionChoice(ChatCompletionMessage("assistant", content, reasoning), "")

ChatCompletionRequest(model, messages, stream, id) ==
    [Model |-> model, Messages |-> messages, Stream |-> stream, RequestID |-> id]

(***************************************************************************)
(* The inputs of a run: the caller's request, the prompt templates of the  *)
(* configuration, and what the two backends answer.                        *)
(***************************************************************************)
UserMsg(c) == ChatCompletionMessage("user", c, <<>>)

Requests ==
    { ChatCompletionRequest("", <<UserMsg("q1")>>, FALSE, ""),
      ChatCompletionRequest("hybrid", <<UserMsg("q1"), ChatCompletionMessage("assistant", "a1", <<>>)>>, TRUE, "rid1"),
      ChatCompletionRequest("hybrid", <<>>, FALSE, "rid1") }

\* the contents a fast-model answer carries
NormalContents == {"n1", "n2"}

\* what NormalClient.Complete hands back when it returns no error
NormalResponses ==
    { ChatCompletionResponse(<<Delta(c, <<>>)>>) : c \in NormalContents }
      \cup { ChatCompletionResponse(<<>>), NilResponse }

\* the errors a client returns by itself
NormalErrors == {"temporary error", "normal client error"}

ReasonerErrors == {"reasoner client error"}

\* ctx.Err() of a context that is done
CtxErrors == {"context canceled", "context deadline exceeded"}

\* the partial responses a streaming client may put on its channel
Deltas ==
    { NilResponse,
      ChatCompletionResponse(<<>>),
      ChatCompletionResponse(<<Delta("", <<>>)>>),
      ChatCompletionResponse(<<Delta("c1", <<>>)>>),
      ChatCompletionResponse(<<Delta("", <<"s1">>)>>),
      ChatCompletionResponse(<<Delta("c2", <<"s2", "s3">>)>>),
      ChatCompletionResponse(<<Delta("", <<>>), Delta("c3", <<"s4">>)>>) }

(***************************************************************************)
(* The stages: pipeline.go, NewHybridPipeline                              *)
(***************************************************************************)
NumStages == 3

Stages == 1..NumStages

Name(i) ==
    CASE i = 1 -> "normal_preprocessor"
      [] i = 2 -> "reasoner_engine"
      [] i = 3 -> "normal_postprocessor"

\* StageModel of stages that all name the deep model
StageModelDeepOnly(i) == "gpt-4"

\* the model each stage pins in its request
StageModel(i) ==
    CASE i = 1 -> "gpt-3.5-turbo"
      [] i = 2 -> "gpt-4"
      [] i = 3 -> "gpt-3.5-turbo"

VARIABLES
    req,          \* the caller's request (Payload.OriginalRequest)
    badPrompts,   \* the stages whose prompt template does not parse
    ctxErr,       \* ctx.Err(): "" while the context is live
    pc,           \* where Execute is
    stageIdx,     \* the stage the loop of Execute is at
    payload,      \* the Payload of the run
    lastContent,  \* ReasonerEngine.Execute's local lastContent
    result,       \* what Execute returned: response and error
    log,          \* history: stage starts and returns, in order
    clientCalls,  \* history: the calls made on the two clients, in order
    answers,      \* history: what the clients answered to these calls, in order
    prod,         \* the client's producer goroutine
    prodVal,      \* the response the producer is sending
    fwd,          \* the Bridge's forwarding goroutine
    fwdVal,       \* the response the forwarder is sending
    rawSent,      \* history: responses delivered on the internal channel
    fwdRecv,      \* history: responses the Reasoner took from filteredChan
    recvErr       \* the error of stream.Recv that ended the producer, "" if none

\* the state of one run of Execute
executeVars == <<req, badPrompts, ctxErr, pc, stageIdx, payload, lastContent, result,
                 log, clientCalls, answers, prod, prodVal, fwd, fwdVal, rawSent, fwdRecv,
                 recvErr>>

VARIABLES
    mu,           \* ModelBridge.mu: the read locks held, and whether it is write-locked
    calls         \* the concurrent calls on one shared Bridge, by caller

\* the state of a Bridge shared by concurrent callers
bridgeVars == <<mu, calls>>

VARIABLES
    runs,         \* the concurrent runs of Execute on one pipeline, by run
    payloads      \* the Payload objects of these runs

\* the state of a pipeline shared by concurrent runs
runsVars == <<runs, payloads>>

VARIABLES
    callerReq,      \* the request as the caller handed it to the deep-model client
    clientReq,      \* that request object, which the client modifies in place
    disabledParams, \* ModelClientConfig.DisabledParams of the client
    defaultParams,  \* ModelClientConfig.DefaultParams of the client
    sentBy,         \* the method of the client that sent the request, "" before
    openaiReq       \* the request the client handed to the backend library

\* the state of one request through the deep-model client
paramVars == <<callerReq, clientReq, disabledParams, defaultParams, sentBy, openaiReq>>

\* what a run of Execute leaves alone
sideVars == <<bridgeVars, runsVars, paramVars>>

vars == <<executeVars, bridgeVars, runsVars, paramVars>>

engineVars == <<pc, stageIdx, result, log>>

relayVars == <<prod, prodVal, fwd, fwdVal, rawSent, fwdRecv, recvErr>>

NoResult == [resp |-> NilResponse, err |-> ""]

NewPayload ==
    [ReasoningChain |-> <<>>, IntermContent |-> "", FinalContent |-> ""]

Event(kind, i, e) ==
    [kind |-> kind, stage |-> i, err |-> e, ctx |-> ctxErr]

\* bridge.go, lines 25-35: a Bridge as NewModelBridge returns it, no call made
IdleCall ==
    [pc |-> "idle", method |-> "", answer |-> [kind |-> "none", err |-> ""],
     ret |-> NoResult, taken |-> 0]

Callers == 1..NumCallers

BridgeInit ==
    /\ mu = [readers |-> 0, writer |-> FALSE]
    /\ calls = [c \in Callers |-> IdleCall]

\* a run of Execute that has not started
NewRun ==
    [pc |-> "created", lastContent |-> "", taken |-> 0, reads |-> {}, result |-> NoResult]

RunIds == 1..NumRuns

RunsInit ==
    /\ runs = [r \in RunIds |-> NewRun]
    /\ payloads = [k \in RunIds |-> NewPayload]

\* types.go, lines 4-11: a request with its sampling parameters
SampledRequest(r, temperature, maxTokens) ==
    [Model |-> r.Model, Messages |-> r.Messages, Stream |-> r.Stream,
     RequestID |-> r.RequestID, Temperature |-> temperature, MaxTokens |-> maxTokens]

\* no request handed to the backend library yet
NoOpenaiRequest ==
    [Model |-> "", Messages |-> <<>>, Stream |-> FALSE, Temperature |-> 0, MaxTokens |-> 0]

\* a configuration without default_params
NoDefaultParams == [n \in {} |-> [type |-> "int", val |-> 0]]

\* a deep-model client that was handed no request
ParamIdle ==
    /\ callerReq = SampledRequest(ChatCompletionRequest("", <<UserMsg("q1")>>, FALSE, ""), 0, 0)
    /\ clientReq = callerReq
    /\ disabledParams = {}
    /\ defaultParams = NoDefaultParams
    /\ sentBy = ""
    /\ openaiReq = NoOpenaiRequest

ExecuteInit ==
    /\ req \in Requests
    /\ badPrompts \in SUBSET Stages
    /\ ctxErr = ""
    /\ pc = "created"
    /\ stageIdx = 1
    /\ payload = NewPayload
    /\ lastContent = ""
    /\ result = NoResult
    /\ log = <<>>
    /\ clientCalls = <<>>
    /\ answers = <<>>
    /\ prod = "idle"
    /\ prodVal = NilResponse
    /\ fwd = "idle"
    /\ fwdVal = NilResponse
    /\ rawSent = <<>>
    /\ fwdRecv = <<>>
    /\ recvErr = ""

\* a pipeline on which Execute was not called
ExecuteIdle ==
    /\ ExecuteInit
    /\ req = ChatCompletionRequest("", <<UserMsg("q1")>>, FALSE, "")
    /\ badPrompts = {}

Init ==
    /\ ExecuteInit
    /\ BridgeInit
    /\ RunsInit
    /\ ParamIdle

(***************************************************************************)
(* The context: it is cancelled, or its deadline passes, at any moment of  *)
(* a run that has not ended.                                               *)
(***************************************************************************)
Running == pc \in {"created", "loop", "callNormal", "callStream", "streaming"}

CtxDone == ctxErr # ""

Cancel ==
    /\ Running
    /\ ~CtxDone
    /\ ctxErr' \in CtxErrors
    /\ UNCHANGED <<req, badPrompts, pc, stageIdx, payload, lastContent, result,
                   log, clientCalls, answers, prod, prodVal, fwd, fwdVal, rawSent, fwdRecv>>
    /\ UNCHANGED recvErr
    /\ UNCHANGED sideVars

(***************************************************************************)
(* HybridPipeline.Execute: pipeline.go                                     *)
(***************************************************************************)
\* ExecuteStart generating a request id whether or not the request has one
ExecuteStartNewId ==
    /\ pc = "created"
    /\ req' = [req EXCEPT !.RequestID = "req_now"]
    /\ payload' = NewPayload
    /\ pc' = "loop"
    /\ stageIdx' = 1
    /\ UNCHANGED <<badPrompts, ctxErr, lastContent, result, log, clientCalls, answers>>
    /\ UNCHANGED relayVars
    /\ UNCHANGED sideVars

\* lines 108-118: the request id is generated when absent, the payload is
\* created around the request, and the loop over the stages is entered
ExecuteStart ==
    /\ pc = "created"
    /\ req' = IF req.RequestID = "" THEN [req EXCEPT !.RequestID = "req_now"] ELSE req
    /\ payload' = NewPayload
    /\ pc' = "loop"
    /\ stageIdx' = 1
    /\ UNCHANGED <<badPrompts, ctxErr, lastContent, result, log, clientCalls, answers>>
    /\ UNCHANGED relayVars
    /\ UNCHANGED sideVars

\* buildResponse taking the content from the wrong payload field
buildResponseInterm(p) ==
    ChatCompletionResponse(
        <<ChatCompletionChoice(
            ChatCompletionMessage("assistant", p.IntermContent, p.ReasoningChain),
            "stop")>>)

\* lines 142-157
buildResponse(p) ==
    ChatCompletionResponse(
        <<ChatCompletionChoice(
            ChatCompletionMessage("assistant", p.FinalContent, p.ReasoningChain),
            "stop")>>)

\* EngineOnError with the return forgotten: the loop goes on to the next stage
EngineOnErrorContinue(i, e, lg) ==
    /\ log' = Append(lg, Event("err", i, e))
    /\ IF i < NumStages
          THEN /\ pc' = "loop"
               /\ stageIdx' = i + 1
               /\ result' = result
          ELSE /\ pc' = "failed"
               /\ stageIdx' = i
               /\ result' = [resp |-> NilResponse, err |-> "stage " \o Name(i) \o " failed: " \o e]

\* EngineOnError returning the stage's error as it is, without the stage's name
EngineOnErrorUnwrapped(i, e, lg) ==
    /\ pc' = "failed"
    /\ stageIdx' = i
    /\ result' = [resp |-> NilResponse, err |-> e]
    /\ log' = Append(lg, Event("err", i, e))

\* EngineOnError running a failed stage once more, whatever the stage and the error
EngineOnErrorRetryOnce(i, e, lg) ==
    /\ log' = Append(lg, Event("err", i, e))
    /\ stageIdx' = i
    /\ IF Cardinality({k \in DOMAIN lg : lg[k].kind = "err" /\ lg[k].stage = i}) = 0
          THEN /\ pc' = "loop"
               /\ result' = result
          ELSE /\ pc' = "failed"
               /\ result' = [resp |-> NilResponse, err |-> "stage " \o Name(i) \o " failed: " \o e]

\* lines 129-132: the stage returned an error; lg is the history so far
EngineOnError(i, e, lg) ==
    /\ pc' = "failed"
    /\ stageIdx' = i
    /\ result' = [resp |-> NilResponse, err |-> "stage " \o Name(i) \o " failed: " \o e]
    /\ log' = Append(lg, Event("err", i, e))

\* lines 133-138: the stage returned nil and left the payload p; the loop goes
\* on to the next stage, or ends and the response is built
EngineOnSuccess(i, p, lg) ==
    /\ log' = Append(lg, Event("ok", i, ""))
    /\ IF i < NumStages
          THEN /\ pc' = "loop"
               /\ stageIdx' = i + 1
               /\ result' = result
          ELSE /\ pc' = "completed"
               /\ stageIdx' = i
               /\ result' = [resp |-> buildResponse(p), err |-> ""]

\* a fault raised inside a stage is recovered nowhere in Execute: the
\* goroutine running the request dies and Execute returns nothing
EnginePanic(i, lg) ==
    /\ pc' = "panicked"
    /\ stageIdx' = i
    /\ result' = result
    /\ log' = Append(lg, Event("panic", i, ""))

(***************************************************************************)
(* The stages up to their Bridge call: pipeline.go, lines 194-221,         *)
(* 254-282 and 331-359                                                     *)
(***************************************************************************)
\* fmt's rendering of a []string
RECURSIVE JoinStrings(_)
JoinStrings(ss) ==
    IF ss = <<>> THEN ""
    ELSE IF Len(ss) = 1 THEN ss[1]
    ELSE ss[1] \o " " \o JoinStrings(Tail(ss))

\* the prompt of stage i rendered against the payload: the templates bind
\* UserInput, StructuredInput, and ReasoningChain with IntermediateResult
Render(i, p, r) ==
    CASE i = 1 -> "pre:" \o r.Messages[Len(r.Messages)].Content
      [] i = 2 -> "reason:" \o p.IntermContent
      [] i = 3 -> "post:[" \o JoinStrings(p.ReasoningChain) \o "]" \o p.IntermContent

\* StageRequest with the original user input as the user message of every stage
StageRequestUserInput(i, p, r) ==
    ChatCompletionRequest(
        StageModel(i),
        << ChatCompletionMessage("system", Render(i, p, r), <<>>),
           ChatCompletionMessage("user", r.Messages[Len(r.Messages)].Content, <<>>) >>,
        i = 2,
        "")

\* the request stage i builds for its backend
StageRequest(i, p, r) ==
    ChatCompletionRequest(
        StageModel(i),
        << ChatCompletionMessage("system", Render(i, p, r), <<>>),
           ChatCompletionMessage("user",
               IF i = 1 THEN r.Messages[Len(r.Messages)].Content ELSE p.IntermContent,
               <<>>) >>,
        i = 2,
        "")

\* bridge.go, line 97: CallReasonerStream sets the stream flag of the request
\* it was given before it hands the request to the client
EnsureStream(r) == [r EXCEPT !.Stream = TRUE]

\* ClientCall of a Bridge that calls the blocking Complete of every client
ClientCallBlocking(client, method, r) ==
    [client |-> client, method |-> "Complete", req |-> r]

ClientCall(client, method, r) ==
    [client |-> client, method |-> method, req |-> r]

\* template.Parse fails on a malformed prompt
ParseError == "parse template: template: prompt:1: unexpected \"}\" in command"

\* SelectCancelled looking at the context before the first stage only
SelectCancelledFirstOnly == CtxDone /\ stageIdx = 1

\* SelectCancelled looking at the context before the first two stages only
SelectCancelledBeforeReasoner == CtxDone /\ stageIdx <= 2

\* lines 124-125: the select takes the ctx.Done() case when the context is done
SelectCancelled == CtxDone

\* lines 120-128 and the stage up to its call: the context is looked at; when
\* it is done Execute returns its error, otherwise the stage is entered
StageSelect ==
    /\ pc = "loop"
    /\ LET i == stageIdx
           started == Append(log, Event("start", i, ""))
       IN  IF SelectCancelled
              THEN /\ pc' = "cancelled"
                   /\ result' = [resp |-> NilResponse, err |-> ctxErr]
                   /\ UNCHANGED <<stageIdx, log, clientCalls>>
           ELSE IF i \in badPrompts
              THEN /\ EngineOnError(i, ParseError, started)
                   /\ UNCHANGED clientCalls
           ELSE IF i = 1 /\ req.Messages = <<>>
              THEN /\ EnginePanic(i, started)
                   /\ UNCHANGED clientCalls
           ELSE /\ log' = started
                /\ stageIdx' = i
                /\ result' = result
                /\ IF i = 2
                      THEN /\ pc' = "callStream"
                           /\ clientCalls' = Append(clientCalls,
                                  ClientCall("reasoner", "CompleteStream",
                                             EnsureStream(StageRequest(i, payload, req))))
                      ELSE /\ pc' = "callNormal"
                           /\ clientCalls' = Append(clientCalls,
                                  ClientCall("normal", "Complete", StageRequest(i, payload, req)))
    /\ UNCHANGED <<req, badPrompts, ctxErr, payload, lastContent, answers>>
    /\ UNCHANGED relayVars
    /\ UNCHANGED sideVars

(***************************************************************************)
(* ModelBridge.CallNormal (bridge.go, lines 38-61) and the rest of the     *)
(* Preprocessor (pipeline.go, 221-230) and Postprocessor (359-368)         *)
(***************************************************************************)
\* what the fast-model client's Complete does: it returns a response, returns
\* an error (its own, or the context's once the context is done), or faults
NormalOutcomes ==
    [kind : {"resp"}, resp : NormalResponses, err : {""}]
      \cup [kind : {"err"}, resp : {NilResponse}, err : NormalErrors \cup CtxErrors]
      \cup [kind : {"panic"}, resp : {NilResponse}, err : {"client fault"}]

\* lines 43-60 of bridge.go: a fault of the client is recovered into an error,
\* an error is passed on, a response is passed on as it is
CallNormal(o) ==
    CASE o.kind = "panic" -> [resp |-> NilResponse, err |-> "runtime error: " \o o.err]
      [] o.kind = "err"   -> [resp |-> NilResponse, err |-> o.err]
      [] o.kind = "resp"  -> [resp |-> o.resp, err |-> ""]

\* StoreContent writing the final content whatever the stage
StoreContentFinal(i, p, c) == [p EXCEPT !.FinalContent = c]

\* StoreContent writing the intermediate content whatever the stage
StoreContentInterm(i, p, c) == [p EXCEPT !.IntermContent = c]

\* the payload after stage i stored the content of the answer
StoreContent(i, p, c) ==
    IF i = 1 THEN [p EXCEPT !.IntermContent = c] ELSE [p EXCEPT !.FinalContent = c]

NormalReturn(o) ==
    /\ pc = "callNormal"
    /\ o.kind = "err" /\ o.err \in CtxErrors => o.err = ctxErr
    /\ LET i == stageIdx
           r == CallNormal(o)
       IN  IF r.err # ""
              THEN /\ EngineOnError(i, "model call: " \o r.err, log)
                   /\ UNCHANGED payload
           ELSE IF r.resp.isNil \/ r.resp.Choices = <<>>
              THEN /\ EnginePanic(i, log)
                   /\ UNCHANGED payload
           ELSE /\ payload' = StoreContent(i, payload, r.resp.Choices[1].Message.Content)
                /\ EngineOnSuccess(i, payload', log)
    /\ answers' = Append(answers, o)
    /\ UNCHANGED <<req, badPrompts, ctxErr, lastContent, clientCalls>>
    /\ UNCHANGED relayVars
    /\ UNCHANGED sideVars

(***************************************************************************)
(* ModelBridge.CallReasonerStream: bridge.go, lines 90-140                 *)
(***************************************************************************)
\* what the deep-model client's CompleteStream does: it returns a channel fed
\* by its producer goroutine, returns an error, or faults
StreamOutcomes ==
    [kind : {"chan"}, err : {""}]
      \cup [kind : {"err"}, err : ReasonerErrors \cup CtxErrors]
      \cup [kind : {"panic"}, err : {"client fault"}]

\* StreamReturn with a Bridge that starts its forwarding goroutine before it
\* looks at the error of CompleteStream
StreamReturnForwardsFirst(o) ==
    /\ pc = "callStream"
    /\ o.kind = "err" /\ o.err \in CtxErrors => o.err = ctxErr
    /\ CASE o.kind = "panic" ->
               /\ EnginePanic(stageIdx, log)
               /\ UNCHANGED <<prod, fwd, lastContent>>
         [] o.kind = "err" ->
               /\ EngineOnError(stageIdx, "model call: " \o o.err, log)
               /\ fwd' = "recv"
               /\ UNCHANGED <<prod, lastContent>>
         [] o.kind = "chan" ->
               /\ pc' = "streaming"
               /\ prod' = "loop"
               /\ fwd' = "recv"
               /\ lastContent' = ""
               /\ UNCHANGED <<stageIdx, result, log>>
    /\ answers' = Append(answers, o)
    /\ UNCHANGED <<req, badPrompts, ctxErr, payload, clientCalls,
                   prodVal, fwdVal, rawSent, fwdRecv>>
    /\ UNCHANGED recvErr
    /\ UNCHANGED sideVars

\* StreamReturn with a Reasoner that clears the intermediate content before
\* it looks at the error of the call
StreamReturnClearsContent(o) ==
    /\ pc = "callStream"
    /\ o.kind = "err" /\ o.err \in CtxErrors => o.err = ctxErr
    /\ CASE o.kind = "panic" ->
               /\ EnginePanic(stageIdx, log)
               /\ UNCHANGED <<prod, fwd, lastContent>>
         [] o.kind = "err" ->
               /\ EngineOnError(stageIdx, "model call: " \o o.err, log)
               /\ UNCHANGED <<prod, fwd, lastContent>>
         [] o.kind = "chan" ->
               /\ pc' = "streaming"
               /\ prod' = "loop"
               /\ fwd' = "recv"
               /\ lastContent' = ""
               /\ UNCHANGED <<stageIdx, result, log>>
    /\ payload' = [payload EXCEPT !.IntermContent = ""]
    /\ answers' = Append(answers, o)
    /\ UNCHANGED <<req, badPrompts, ctxErr, clientCalls,
                   prodVal, fwdVal, rawSent, fwdRecv>>
    /\ UNCHANGED recvErr
    /\ UNCHANGED sideVars

\* lines 99-139 and lines 282-290 of pipeline.go: an error of CompleteStream
\* fails the stage; otherwise the forwarding goroutine is started on the
\* client's channel and the Reasoner starts to receive.  CallReasonerStream
\* recovers no fault.
StreamReturn(o) ==
    /\ pc = "callStream"
    /\ o.kind = "err" /\ o.err \in CtxErrors => o.err = ctxErr
    /\ CASE o.kind = "panic" ->
               /\ EnginePanic(stageIdx, log)
               /\ UNCHANGED <<prod, fwd, lastContent>>
         [] o.kind = "err" ->
               /\ EngineOnError(stageIdx, "model call: " \o o.err, log)
               /\ UNCHANGED <<prod, fwd, lastContent>>
         [] o.kind = "chan" ->
               /\ pc' = "streaming"
               /\ prod' = "loop"
               /\ fwd' = "recv"
               /\ lastContent' = ""
               /\ UNCHANGED <<stageIdx, result, log>>
    /\ answers' = Append(answers, o)
    /\ UNCHANGED <<req, badPrompts, ctxErr, payload, clientCalls,
                   prodVal, fwdVal, rawSent, fwdRecv>>
    /\ UNCHANGED recvErr
    /\ UNCHANGED sideVars

(***************************************************************************)
(* The client's producer goroutine: reasoner.go, lines 130-169, and        *)
(* normal.go, lines 88-106.  It looks at the context, waits for the next   *)
(* chunk of the backend stream, offers the response on its unbuffered      *)
(* channel, and closes the channel when it returns.                        *)
(***************************************************************************)
\* reasoner.go, lines 138-140: the select takes ctx.Done() when the context
\* is done
ProducerSeesDone == CtxDone

\* lines 137-142: the top of the loop; the producer returns, and its deferred
\* close runs, or it goes on to stream.Recv
ProducerSelect ==
    /\ prod = "loop"
    /\ prod' = IF ProducerSeesDone THEN "closed" ELSE "recv"
    /\ UNCHANGED <<req, badPrompts, ctxErr, pc, stageIdx, payload, lastContent,
                   result, log, clientCalls, answers, prodVal, fwd, fwdVal, rawSent, fwdRecv>>
    /\ UNCHANGED recvErr
    /\ UNCHANGED sideVars

\* lines 142-165: Recv returned a chunk and the response d made of it is
\* offered on the channel
ProducerSend(d) ==
    /\ prod = "recv"
    /\ Len(rawSent) < MaxDeltas
    /\ prod' = "send"
    /\ prodVal' = d
    /\ UNCHANGED <<req, badPrompts, ctxErr, pc, stageIdx, payload, lastContent,
                   result, log, clientCalls, answers, fwd, fwdVal, rawSent, fwdRecv>>
    /\ UNCHANGED recvErr
    /\ UNCHANGED sideVars

\* lines 147-148: Recv returned a chunk without content, nothing is sent
ProducerSkip ==
    /\ prod = "recv"
    /\ prod' = "loop"
    /\ UNCHANGED <<req, badPrompts, ctxErr, pc, stageIdx, payload, lastContent,
                   result, log, clientCalls, answers, prodVal, fwd, fwdVal, rawSent, fwdRecv>>
    /\ UNCHANGED recvErr
    /\ UNCHANGED sideVars

\* what stream.Recv returns when it returns an error: the backend's stream
\* ended, a chunk did not decode, or the backend or the connection failed
RecvErrors == {"EOF", "decode error", "backend error"}

\* ProducerClose of a producer that goes on to the next chunk when a chunk did
\* not decode
ProducerCloseSkipsBadChunk(e) ==
    /\ prod = "recv"
    /\ prod' = IF e = "decode error" THEN "loop" ELSE "closed"
    /\ recvErr' = e
    /\ UNCHANGED <<req, badPrompts, ctxErr, pc, stageIdx, payload, lastContent,
                   result, log, clientCalls, answers, prodVal, fwd, fwdVal, rawSent, fwdRecv>>
    /\ UNCHANGED sideVars

\* lines 142-145: Recv returned the error e (the stream ended or failed, or the
\* context the stream is bound to is done) and the producer returns
ProducerClose(e) ==
    /\ prod = "recv"
    /\ prod' = "closed"
    /\ recvErr' = e
    /\ UNCHANGED <<req, badPrompts, ctxErr, pc, stageIdx, payload, lastContent,
                   result, log, clientCalls, answers, prodVal, fwd, fwdVal, rawSent, fwdRecv>>
    /\ UNCHANGED sideVars

\* a producer that selects on ctx.Done() while it sends gives the send up
ProducerAbort ==
    /\ prod = "send"
    /\ CtxDone
    /\ prod' = "closed"
    /\ UNCHANGED <<req, badPrompts, ctxErr, pc, stageIdx, payload, lastContent,
                   result, log, clientCalls, answers, prodVal, fwd, fwdVal, rawSent, fwdRecv>>
    /\ UNCHANGED recvErr
    /\ UNCHANGED sideVars

(***************************************************************************)
(* The Bridge's forwarding goroutine: bridge.go, lines 109-137             *)
(***************************************************************************)
\* Forwardable without the test of content and reasoning
ForwardNonNil(d) == ~d.isNil

\* Forwardable asking for visible content only
ForwardContentOnly(d) ==
    /\ ~d.isNil
    /\ Len(d.Choices) > 0
    /\ Len(d.Choices[1].Message.Content) > 0

\* lines 118-129: the test a raw response passes to be forwarded
Forwardable(d) ==
    /\ ~d.isNil
    /\ Len(d.Choices) > 0
    /\ \/ Len(d.Choices[1].Message.Content) > 0
       \/ Len(d.Choices[1].Message.ReasoningContent) > 0

\* ForwarderRecv of a forwarding goroutine that takes the next response while
\* the one before is still to be delivered, and delivers the newer one
ForwarderRecvBuffered ==
    /\ fwd \in {"recv", "send"}
    /\ prod = "send"
    /\ rawSent' = Append(rawSent, prodVal)
    /\ prod' = "loop"
    /\ IF Forwardable(prodVal)
          THEN fwd' = "send" /\ fwdVal' = prodVal
          ELSE fwd' = fwd /\ fwdVal' = fwdVal
    /\ UNCHANGED <<req, badPrompts, ctxErr, pc, stageIdx, payload, lastContent,
                   result, log, clientCalls, answers, prodVal, fwdRecv>>
    /\ UNCHANGED recvErr
    /\ UNCHANGED sideVars

\* ForwarderRecv returning, instead of going on, at a response it does not forward
ForwarderRecvStopOnDrop ==
    /\ fwd = "recv"
    /\ prod = "send"
    /\ rawSent' = Append(rawSent, prodVal)
    /\ prod' = "loop"
    /\ IF Forwardable(prodVal)
          THEN fwd' = "send" /\ fwdVal' = prodVal
          ELSE fwd' = "closed" /\ fwdVal' = fwdVal
    /\ UNCHANGED <<req, badPrompts, ctxErr, pc, stageIdx, payload, lastContent,
                   result, log, clientCalls, answers, prodVal, fwdRecv>>
    /\ UNCHANGED recvErr
    /\ UNCHANGED sideVars

\* lines 115-131: one response is taken from the client's channel, and
\* offered on filteredChan when it passes the test
ForwarderRecv ==
    /\ fwd = "recv"
    /\ prod = "send"
    /\ rawSent' = Append(rawSent, prodVal)
    /\ prod' = "loop"
    /\ IF Forwardable(prodVal)
          THEN fwd' = "send" /\ fwdVal' = prodVal
          ELSE fwd' = "recv" /\ fwdVal' = fwdVal
    /\ UNCHANGED <<req, badPrompts, ctxErr, pc, stageIdx, payload, lastContent,
                   result, log, clientCalls, answers, prodVal, fwdRecv>>
    /\ UNCHANGED recvErr
    /\ UNCHANGED sideVars

\* ForwarderClose by a forwarding goroutine that leaves its loop only when the
\* context is done
ForwarderCloseOnDone ==
    /\ fwd = "recv"
    /\ prod = "closed"
    /\ CtxDone
    /\ fwd' = "closed"
    /\ UNCHANGED <<req, badPrompts, ctxErr, pc, stageIdx, payload, lastContent,
                   result, log, clientCalls, answers, prod, prodVal, fwdVal, rawSent, fwdRecv>>
    /\ UNCHANGED recvErr
    /\ UNCHANGED sideVars

\* lines 110 and 115: the client's channel is closed and drained, the loop
\* ends and the deferred close(filteredChan) runs
ForwarderClose ==
    /\ fwd = "recv"
    /\ prod = "closed"
    /\ fwd' = "closed"
    /\ UNCHANGED <<req, badPrompts, ctxErr, pc, stageIdx, payload, lastContent,
                   result, log, clientCalls, answers, prod, prodVal, fwdVal, rawSent, fwdRecv>>
    /\ UNCHANGED recvErr
    /\ UNCHANGED sideVars

(***************************************************************************)
(* ReasonerEngine.Execute, the receive loop: pipeline.go, lines 288-307    *)
(***************************************************************************)
\* CollectReasoning assigning where the code appends
CollectReasoningLast(chain, d) ==
    IF Len(d.Choices) > 0 /\ Len(d.Choices[1].Message.ReasoningContent) > 0
       THEN d.Choices[1].Message.ReasoningContent
       ELSE chain

\* lines 292-298: the reasoning chain after the response d
CollectReasoning(chain, d) ==
    IF Len(d.Choices) > 0 /\ Len(d.Choices[1].Message.ReasoningContent) > 0
       THEN chain \o d.Choices[1].Message.ReasoningContent
       ELSE chain

\* UpdateContent adding the content of d to what was collected
UpdateContentConcat(lc, d) ==
    IF Len(d.Choices) > 0 THEN lc \o d.Choices[1].Message.Content ELSE lc

\* lines 292 and 300: lastContent after the response d
UpdateContent(lc, d) ==
    IF Len(d.Choices) > 0 THEN d.Choices[1].Message.Content ELSE lc

\* ReasonerRecv of a Reasoner that closes filteredChan itself once it took a
\* response
ReasonerRecvCloses ==
    /\ pc = "streaming"
    /\ fwd = "send"
    /\ fwdRecv' = Append(fwdRecv, fwdVal)
    /\ fwd' = "closed"
    /\ IF fwdVal.isNil
          THEN /\ EnginePanic(stageIdx, log)
               /\ UNCHANGED <<payload, lastContent>>
          ELSE /\ payload' = [payload EXCEPT
                                 !.ReasoningChain = CollectReasoning(@, fwdVal)]
               /\ lastContent' = UpdateContent(lastContent, fwdVal)
               /\ UNCHANGED engineVars
    /\ UNCHANGED <<req, badPrompts, ctxErr, clientCalls, answers, prod, prodVal, fwdVal, rawSent>>
    /\ UNCHANGED recvErr
    /\ UNCHANGED sideVars

\* one iteration of the loop over respChan; len(resp.Choices) of a nil
\* response is a nil dereference
ReasonerRecv ==
    /\ pc = "streaming"
    /\ fwd = "send"
    /\ fwdRecv' = Append(fwdRecv, fwdVal)
    /\ fwd' = "recv"
    /\ IF fwdVal.isNil
          THEN /\ EnginePanic(stageIdx, log)
               /\ UNCHANGED <<payload, lastContent>>
          ELSE /\ payload' = [payload EXCEPT
                                 !.ReasoningChain = CollectReasoning(@, fwdVal)]
               /\ lastContent' = UpdateContent(lastContent, fwdVal)
               /\ UNCHANGED engineVars
    /\ UNCHANGED <<req, badPrompts, ctxErr, clientCalls, answers, prod, prodVal, fwdVal, rawSent>>
    /\ UNCHANGED recvErr
    /\ UNCHANGED sideVars

\* ReasonerDone keeping the intermediate content when the stream brought none
ReasonerDoneKeepsContent ==
    /\ pc = "streaming"
    /\ fwd = "closed"
    /\ payload' = IF lastContent = "" THEN payload
                  ELSE [payload EXCEPT !.IntermContent = lastContent]
    /\ EngineOnSuccess(stageIdx, payload', log)
    /\ UNCHANGED <<req, badPrompts, ctxErr, lastContent, clientCalls, answers>>
    /\ UNCHANGED relayVars
    /\ UNCHANGED sideVars

\* ReasonerDone leaving the loop as soon as the context is done, without
\* waiting for filteredChan to be closed
ReasonerDoneOnCancel ==
    /\ pc = "streaming"
    /\ fwd = "closed" \/ CtxDone
    /\ payload' = [payload EXCEPT !.IntermContent = lastContent]
    /\ EngineOnSuccess(stageIdx, payload', log)
    /\ UNCHANGED <<req, badPrompts, ctxErr, lastContent, clientCalls, answers>>
    /\ UNCHANGED relayVars
    /\ UNCHANGED sideVars

\* lines 302-307: filteredChan is closed, the loop ends, the last content is
\* stored and the stage returns nil
ReasonerDone ==
    /\ pc = "streaming"
    /\ fwd = "closed"
    /\ payload' = [payload EXCEPT !.IntermContent = lastContent]
    /\ EngineOnSuccess(stageIdx, payload', log)
    /\ UNCHANGED <<req, badPrompts, ctxErr, lastContent, clientCalls, answers>>
    /\ UNCHANGED relayVars
    /\ UNCHANGED sideVars

(***************************************************************************)
(* The run                                                                 *)
(***************************************************************************)
Next ==
    \/ Cancel
    \/ ExecuteStart
    \/ StageSelect
    \/ \E o \in NormalOutcomes : NormalReturn(o)
    \/ \E o \in StreamOutcomes : StreamReturn(o)
    \/ ProducerSelect
    \/ \E d \in Deltas : ProducerSend(d)
    \/ ProducerSkip
    \/ \E e \in RecvErrors : ProducerClose(e)
    \/ ProducerAbort
    \/ ForwarderRecv
    \/ ForwarderClose
    \/ ReasonerRecv
    \/ ReasonerDone

Spec == Init /\ [][Next]_vars

\* The scheduling of the run's goroutines.  The Go scheduler lets every
\* goroutine that can take a step take it: the loop of Execute, the
\* producer's select, the forwarding goroutine and the Reasoner's receive
\* loop.  A stream bound to a done context fails its pending Recv.  Nothing
\* makes a backend answer, send a chunk or end its stream while the context
\* is live.
Fairness ==
    /\ WF_vars(StageSelect)
    /\ WF_vars(ProducerSelect)
    /\ WF_vars(CtxDone /\ \E e \in RecvErrors : ProducerClose(e))
    /\ WF_vars(ForwarderRecv)
    /\ WF_vars(ForwarderClose)
    /\ WF_vars(ReasonerRecv)
    /\ WF_vars(ReasonerDone)

\* a run under a configuration whose three prompts parse, of a request that
\* holds one message
FairInit == Init /\ badPrompts = {} /\ Len(req.Messages) = 1

FairSpec == FairInit /\ [][Next]_vars /\ Fairness

(***************************************************************************)
(* One ModelBridge shared by concurrent callers: bridge.go.  Each caller   *)
(* makes one call, CallNormal, CallReasoner or CallReasonerStream; the     *)
(* relay of a stream is seen from its consumer: it takes the forwarded     *)
(* responses and then finds filteredChan closed.                           *)
(***************************************************************************)
BridgeMethods == {"CallNormal", "CallReasoner", "CallReasonerStream"}

\* what the deep-model client's Complete does
ReasonerOutcomes ==
    [kind : {"resp"}, resp : NormalResponses, err : {""}]
      \cup [kind : {"err"}, resp : {NilResponse}, err : ReasonerErrors \cup CtxErrors]
      \cup [kind : {"panic"}, resp : {NilResponse}, err : {"client fault"}]

\* the outcomes of the client method that the Bridge method m calls
OutcomesOf(m) ==
    CASE m = "CallNormal" -> NormalOutcomes
      [] m = "CallReasoner" -> ReasonerOutcomes
      [] m = "CallReasonerStream" -> StreamOutcomes

\* CallReasoner recovering the fault without making an error of it
CallReasonerFaultLost(o) ==
    CASE o.kind = "panic" -> [resp |-> NilResponse, err |-> ""]
      [] o.kind = "err"   -> [resp |-> NilResponse, err |-> o.err]
      [] o.kind = "resp"  -> [resp |-> o.resp, err |-> ""]

\* lines 69-86 of bridge.go: a fault of the client is recovered into an error,
\* an error is passed on, a response is passed on as it is
CallReasoner(o) ==
    CASE o.kind = "panic" -> [resp |-> NilResponse, err |-> "runtime error: " \o o.err]
      [] o.kind = "err"   -> [resp |-> NilResponse, err |-> o.err]
      [] o.kind = "resp"  -> [resp |-> o.resp, err |-> ""]

\* the lock of the Bridge taken with Lock, which waits for every other holder
LockFree(m) == ~m.writer /\ m.readers = 0

\* lines 39, 65 and 91: RLock waits for a writer only
RLockFree(m) == ~m.writer

\* lines 38-42, 64-68 and 90-97: caller c enters the Bridge method m, takes
\* the read lock and calls the client
BridgeCall(c, m) ==
    /\ calls[c].pc = "idle"
    /\ RLockFree(mu)
    /\ mu' = [mu EXCEPT !.readers = @ + 1]
    /\ calls' = [calls EXCEPT ![c] = [@ EXCEPT !.pc = "inClient", !.method = m]]
    /\ UNCHANGED <<executeVars, runsVars, paramVars>>

\* the client answers o and the Bridge method returns, its deferred RUnlock
\* run: CallNormal and CallReasoner return what they make of o; of
\* CallReasonerStream (lines 99-139) an error is returned as it is, a channel
\* is wrapped into filteredChan, and a fault is recovered by nothing
BridgeReturn(c, o) ==
    /\ calls[c].pc = "inClient"
    /\ o \in OutcomesOf(calls[c].method)
    /\ mu' = [mu EXCEPT !.readers = @ - 1]
    /\ calls' = [calls EXCEPT ![c] =
          CASE @.method = "CallNormal" ->
                  [@ EXCEPT !.pc = "done", !.answer = o, !.ret = CallNormal(o)]
            [] @.method = "CallReasoner" ->
                  [@ EXCEPT !.pc = "done", !.answer = o, !.ret = CallReasoner(o)]
            [] @.method = "CallReasonerStream" ->
                  CASE o.kind = "chan"  -> [@ EXCEPT !.pc = "streamOpen", !.answer = o]
                    [] o.kind = "err"   -> [@ EXCEPT !.pc = "done", !.answer = o,
                                                     !.ret = [resp |-> NilResponse, err |-> o.err]]
                    [] o.kind = "panic" -> [@ EXCEPT !.pc = "faulted", !.answer = o]]
    /\ UNCHANGED <<executeVars, runsVars, paramVars>>

\* lines 115-131: the caller takes one forwarded response from filteredChan
StreamTake(c) ==
    /\ calls[c].pc = "streamOpen"
    /\ calls[c].taken < MaxDeltas
    /\ calls' = [calls EXCEPT ![c].taken = @ + 1]
    /\ UNCHANGED <<mu, executeVars, runsVars, paramVars>>

\* lines 110 and 115: the client's channel is closed, the forwarding goroutine
\* closes filteredChan and the caller's loop over it ends
StreamClose(c) ==
    /\ calls[c].pc = "streamOpen"
    /\ calls' = [calls EXCEPT ![c].pc = "drained"]
    /\ UNCHANGED <<mu, executeVars, runsVars, paramVars>>

BridgeNext ==
    \E c \in Callers :
       \/ \E m \in BridgeMethods : BridgeCall(c, m)
       \/ \E o \in NormalOutcomes \cup ReasonerOutcomes \cup StreamOutcomes : BridgeReturn(c, o)
       \/ StreamTake(c)
       \/ StreamClose(c)

\* the Bridge before the first call, no run of Execute and no request around
BridgeSpecInit == ExecuteIdle /\ BridgeInit /\ RunsInit /\ ParamIdle

BridgeSpec == BridgeSpecInit /\ [][BridgeNext]_vars

\* The clients of the concurrency test answer every call and end every
\* stream after a short sleep, and the scheduler lets every caller run.
BridgeFairness ==
    \A c \in Callers :
       /\ WF_vars(\E o \in NormalOutcomes \cup ReasonerOutcomes \cup StreamOutcomes : BridgeReturn(c, o))
       /\ WF_vars(StreamClose(c))

BridgeFairSpec == BridgeSpecInit /\ [][BridgeNext]_vars /\ BridgeFairness

(***************************************************************************)
(* Concurrent runs of Execute on one pipeline: pipeline.go.  The stages    *)
(* and the Bridge are shared by the runs; each run steps through its       *)
(* stages at the places where it reads or writes its Payload.  What a      *)
(* backend answers to a call of run r is marked with r.                    *)
(***************************************************************************)
\* the mark of the data the backends produce for run r
Tag(r) == "r" \o ToString(r) \o ":"

\* what the fast model answers to a call of run r
RunAnswers(r) ==
    { [kind |-> "resp", resp |-> ChatCompletionResponse(<<Delta(Tag(r) \o "n", <<>>)>>), err |-> ""],
      [kind |-> "err", resp |-> NilResponse, err |-> "normal client error"] }

\* the partial responses the deep model streams to run r
RunDeltas(r) ==
    { ChatCompletionResponse(<<Delta(Tag(r) \o "c", <<Tag(r) \o "s">>)>>) }

\* one Payload kept in the pipeline and used by every run
PayloadShared(r) == 1

\* lines 115-118: Execute makes a Payload of its own
PayloadOf(r) == r

\* lines 106-118
RunStart(r) ==
    /\ runs[r].pc = "created"
    /\ payloads' = [payloads EXCEPT ![PayloadOf(r)] = NewPayload]
    /\ runs' = [runs EXCEPT ![r].pc = "pre"]
    /\ UNCHANGED <<executeVars, bridgeVars, paramVars>>

\* lines 221-230 and 129-135: the Preprocessor's call returns; the content
\* is stored, or the run fails
RunPreReturn(r, o) ==
    /\ runs[r].pc = "pre"
    /\ IF CallNormal(o).err # ""
          THEN /\ runs' = [runs EXCEPT ![r].pc = "failed",
                                       ![r].result = [resp |-> NilResponse,
                                           err |-> "stage " \o Name(1) \o " failed: model call: " \o CallNormal(o).err]]
               /\ UNCHANGED payloads
          ELSE /\ payloads' = [payloads EXCEPT ![PayloadOf(r)] =
                                   StoreContent(1, @, CallNormal(o).resp.Choices[1].Message.Content)]
               /\ runs' = [runs EXCEPT ![r].pc = "reason"]
    /\ UNCHANGED <<executeVars, bridgeVars, paramVars>>

\* lines 254-290: the Reasoner renders its prompt from the intermediate
\* content and opens the stream
RunReasonerStart(r) ==
    /\ runs[r].pc = "reason"
    /\ runs' = [runs EXCEPT ![r].pc = "stream",
                            ![r].lastContent = "",
                            ![r].reads = @ \cup {payloads[PayloadOf(r)].IntermContent}]
    /\ UNCHANGED <<payloads, executeVars, bridgeVars, paramVars>>

\* lines 291-302: one response of the stream
RunReasonerRecv(r, d) ==
    /\ runs[r].pc = "stream"
    /\ runs[r].taken < MaxDeltas
    /\ payloads' = [payloads EXCEPT ![PayloadOf(r)].ReasoningChain = CollectReasoning(@, d)]
    /\ runs' = [runs EXCEPT ![r].taken = @ + 1,
                            ![r].lastContent = UpdateContent(@, d)]
    /\ UNCHANGED <<executeVars, bridgeVars, paramVars>>

\* lines 302-307
RunReasonerDone(r) ==
    /\ runs[r].pc = "stream"
    /\ payloads' = [payloads EXCEPT ![PayloadOf(r)].IntermContent = runs[r].lastContent]
    /\ runs' = [runs EXCEPT ![r].pc = "post"]
    /\ UNCHANGED <<executeVars, bridgeVars, paramVars>>

\* lines 331-359: the Postprocessor renders its prompt from the reasoning
\* chain and the intermediate content and makes its call
RunPostStart(r) ==
    /\ runs[r].pc = "post"
    /\ LET p == payloads[PayloadOf(r)]
       IN  runs' = [runs EXCEPT ![r].pc = "postCall",
                               ![r].reads = @ \cup {p.IntermContent}
                                              \cup {p.ReasoningChain[k] : k \in DOMAIN p.ReasoningChain}]
    /\ UNCHANGED <<payloads, executeVars, bridgeVars, paramVars>>

\* lines 359-368 and 129-138: the call returns; the final content is stored
\* and the response is built from the Payload, or the run fails
RunPostReturn(r, o) ==
    /\ runs[r].pc = "postCall"
    /\ IF CallNormal(o).err # ""
          THEN /\ runs' = [runs EXCEPT ![r].pc = "failed",
                                       ![r].result = [resp |-> NilResponse,
                                           err |-> "stage " \o Name(3) \o " failed: model call: " \o CallNormal(o).err]]
               /\ UNCHANGED payloads
          ELSE /\ payloads' = [payloads EXCEPT ![PayloadOf(r)] =
                                   StoreContent(3, @, CallNormal(o).resp.Choices[1].Message.Content)]
               /\ runs' = [runs EXCEPT ![r].pc = "completed",
                                       ![r].result = [resp |-> buildResponse(payloads'[PayloadOf(r)]),
                                                      err |-> ""]]
    /\ UNCHANGED <<executeVars, bridgeVars, paramVars>>

RunsNext ==
    \E r \in RunIds :
       \/ RunStart(r)
       \/ \E o \in RunAnswers(r) : RunPreReturn(r, o)
       \/ RunReasonerStart(r)
       \/ \E d \in RunDeltas(r) : RunReasonerRecv(r, d)
       \/ RunReasonerDone(r)
       \/ RunPostStart(r)
       \/ \E o \in RunAnswers(r) : RunPostReturn(r, o)

\* a pipeline on which no run has started, the Bridge idle
RunsSpecInit == ExecuteIdle /\ BridgeInit /\ RunsInit /\ ParamIdle

RunsSpec == RunsSpecInit /\ [][RunsNext]_vars

(***************************************************************************)
(* One request through the deep-model client: reasoner.go, lines 34-125.   *)
(* The request is taken with its sampling parameters, the configuration    *)
(* with its disabled parameter names.                                      *)
(***************************************************************************)
\* the requests a caller hands to the client; temperature in tenths
ParamRequests ==
    { SampledRequest(ChatCompletionRequest(m, <<UserMsg("q1")>>, st, ""), t, mt) :
         m \in {"", "deepseek-r1"}, st \in BOOLEAN, t \in {0, 7}, mt \in {0, 1000} }

\* the lists of disabled parameters a configuration may hold
DisabledSets ==
    SUBSET {"model", "stream", "temperature", "max_tokens", "presence_penalty"}

\* ModelClientConfig.Model of the deep-model client
ReasonerConfigModel == "gpt-4"

\* json.Marshal of a request: types.go, lines 4-11; the fields tagged
\* omitempty are left out when they are zero
Marshal(r) ==
    LET names == {"model", "messages", "request_id"}
                   \cup (IF r.Stream THEN {"stream"} ELSE {})
                   \cup (IF r.Temperature # 0 THEN {"temperature"} ELSE {})
                   \cup (IF r.MaxTokens # 0 THEN {"max_tokens"} ELSE {})
    IN  [n \in names |->
           CASE n = "model" -> r.Model
             [] n = "messages" -> r.Messages
             [] n = "request_id" -> r.RequestID
             [] n = "stream" -> r.Stream
             [] n = "temperature" -> r.Temperature
             [] n = "max_tokens" -> r.MaxTokens]

\* lines 41-43: the disabled names are deleted from the map
DeleteParams(m, D) == [n \in (DOMAIN m) \ D |-> m[n]]

\* line 47: json.Unmarshal into the request object sets the fields the
\* document names and leaves every other field as it is
Unmarshal(m, r) ==
    [Model |-> IF "model" \in DOMAIN m THEN m["model"] ELSE r.Model,
     Messages |-> IF "messages" \in DOMAIN m THEN m["messages"] ELSE r.Messages,
     Stream |-> IF "stream" \in DOMAIN m THEN m["stream"] ELSE r.Stream,
     RequestID |-> IF "request_id" \in DOMAIN m THEN m["request_id"] ELSE r.RequestID,
     Temperature |-> IF "temperature" \in DOMAIN m THEN m["temperature"] ELSE r.Temperature,
     MaxTokens |-> IF "max_tokens" \in DOMAIN m THEN m["max_tokens"] ELSE r.MaxTokens]

\* lines 34-48
filterDisabledParams(r, D) == Unmarshal(DeleteParams(Marshal(r), D), r)

\* lines 55-57 and 102-104
ResolveModel(r) ==
    IF r.Model = "" THEN [r EXCEPT !.Model = ReasonerConfigModel] ELSE r

\* lines 60-71 and 107-119: the request for the backend library is made of
\* the model, the role and content of the messages, and the stream flag
ToOpenai(r, stream) ==
    [Model |-> r.Model,
     Messages |-> [k \in DOMAIN r.Messages |->
                     [Role |-> r.Messages[k].Role, Content |-> r.Messages[k].Content]],
     Stream |-> stream,
     Temperature |-> 0,
     MaxTokens |-> 0]

\* lines 74 and 122: the names in the document the library posts for the
\* request o; it leaves out stream, temperature and max_tokens when zero
WireNames(o) ==
    {"model", "messages"}
       \cup (IF o.Stream THEN {"stream"} ELSE {})
       \cup (IF o.Temperature # 0 THEN {"temperature"} ELSE {})
       \cup (IF o.MaxTokens # 0 THEN {"max_tokens"} ELSE {})

\* lines 50-74
ReasonerClientComplete ==
    /\ sentBy = ""
    /\ clientReq' = ResolveModel(filterDisabledParams(clientReq, disabledParams))
    /\ openaiReq' = ToOpenai(clientReq', FALSE)
    /\ sentBy' = "Complete"
    /\ UNCHANGED <<callerReq, disabledParams, defaultParams, executeVars, bridgeVars, runsVars>>

\* lines 97-122
ReasonerClientCompleteStream ==
    /\ sentBy = ""
    /\ clientReq' = ResolveModel(filterDisabledParams(clientReq, disabledParams))
    /\ openaiReq' = ToOpenai(clientReq', TRUE)
    /\ sentBy' = "CompleteStream"
    /\ UNCHANGED <<callerReq, disabledParams, defaultParams, executeVars, bridgeVars, runsVars>>

ParamNext ==
    \/ ReasonerClientComplete
    \/ ReasonerClientCompleteStream

\* a client built with a list of disabled parameters is handed a request
ParamSpecInit ==
    /\ ExecuteIdle /\ BridgeInit /\ RunsInit
    /\ callerReq \in ParamRequests
    /\ clientReq = callerReq
    /\ disabledParams \in DisabledSets
    /\ defaultParams = NoDefaultParams
    /\ sentBy = ""
    /\ openaiReq = NoOpenaiRequest

ParamSpec == ParamSpecInit /\ [][ParamNext]_vars

(***************************************************************************)
(* A run against mock clients (MockModelClient, src/unnamed/part_002,      *)
(* lines 106-123): the fast-model mock answers with a prefix and the user  *)
(* message of the request it is given, the deep-model mock streams two     *)
(* responses and closes its channel.                                       *)
(***************************************************************************)
Questions == {"What is 2+2?", "q1", "q2"}

ExampleRequests ==
    { ChatCompletionRequest(m, <<UserMsg(q)>>, FALSE, id) :
         m \in {"", "hybrid"}, q \in Questions, id \in {"", "rid1"} }

\* the input the fast-model mock echoes: the user message of the request
MockInput(r) == r.Messages[Len(r.Messages)].Content

\* the calls made to the fast-model mock so far, the one in progress included
NormalCallsMade ==
    Cardinality({ k \in DOMAIN clientCalls : clientCalls[k].client = "normal" })

\* CompleteFunc of the fast-model mock
MockComplete ==
    [kind |-> "resp",
     resp |-> ChatCompletionResponse(
                 << Delta((IF NormalCallsMade = 1 THEN "structured:" ELSE "final:")
                             \o MockInput(clientCalls[Len(clientCalls)].req), <<>>) >>),
     err |-> ""]

\* what CompleteStreamFunc of the deep-model mock sends before it closes
MockDeltas ==
    << ChatCompletionResponse(<<Delta("r1", <<"s1">>)>>),
       ChatCompletionResponse(<<Delta("r2", <<"s2">>)>> ) >>

MockNormalReturn ==
    /\ pc = "callNormal"
    /\ NormalReturn(MockComplete)

MockStreamReturn == StreamReturn([kind |-> "chan", err |-> ""])

MockProducerSend ==
    /\ prod = "recv"
    /\ Len(rawSent) < Len(MockDeltas)
    /\ ProducerSend(MockDeltas[Len(rawSent) + 1])

MockProducerClose ==
    /\ Len(rawSent) = Len(MockDeltas)
    /\ ProducerClose("EOF")

ExampleNext ==
    \/ ExecuteStart
    \/ StageSelect
    \/ MockNormalReturn
    \/ MockStreamReturn
    \/ ProducerSelect
    \/ MockProducerSend
    \/ MockProducerClose
    \/ ForwarderRecv
    \/ ForwarderClose
    \/ ReasonerRecv
    \/ ReasonerDone

\* a pipeline with well-formed prompts, called with a context that is never
\* cancelled
ExampleInit ==
    /\ req \in ExampleRequests
    /\ badPrompts = {}
    /\ ctxErr = ""
    /\ pc = "created"
    /\ stageIdx = 1
    /\ payload = NewPayload
    /\ lastContent = ""
    /\ result = NoResult
    /\ log = <<>>
    /\ clientCalls = <<>>
    /\ answers = <<>>
    /\ prod = "idle"
    /\ prodVal = NilResponse
    /\ fwd = "idle"
    /\ fwdVal = NilResponse
    /\ rawSent = <<>>
    /\ fwdRecv = <<>>
    /\ recvErr = ""
    /\ BridgeInit /\ RunsInit /\ ParamIdle

ExampleSpec == ExampleInit /\ [][ExampleNext]_vars

(***************************************************************************)
(* One request through the fast-model client: NormalClient of              *)
(* src/unnamed/part_000, lines 34-184.  A default parameter of the         *)
(* configuration is a value of the type the YAML document gave it.         *)
(***************************************************************************)
\* default_params.temperature, in tenths: 0.7 decodes to a float64, 1 to an int
TemperatureValues == {[type |-> "float64", val |-> 7], [type |-> "int", val |-> 10]}

\* default_params.max_tokens: 100 decodes to an int, 100.0 to a float64
MaxTokensValues == {[type |-> "int", val |-> 100], [type |-> "float64", val |-> 100]}

\* the default_params maps a configuration may hold
DefaultParamSets ==
    { [n \in D |-> IF n = "temperature" THEN t ELSE m] :
         D \in SUBSET {"temperature", "max_tokens"},
         t \in TemperatureValues, m \in MaxTokensValues }

\* ModelClientConfig.Model of the fast-model client
NormalConfigModel == "gpt-3.5-turbo"

\* lines 144-153
convertMessages(msgs) ==
    [k \in DOMAIN msgs |-> [Role |-> msgs[k].Role, Content |-> msgs[k].Content]]

\* lines 171-184: a default is taken when its value has the asserted type,
\* float64 for temperature and int for max_tokens
applyDefaultParams(o, params) ==
    [o EXCEPT
       !.Temperature = IF "temperature" \in DOMAIN params /\ params["temperature"].type = "float64"
                          THEN params["temperature"].val ELSE @,
       !.MaxTokens = IF "max_tokens" \in DOMAIN params /\ params["max_tokens"].type = "int"
                        THEN params["max_tokens"].val ELSE @]

\* a client that sends the request's model as it came
NormalResolveModelKeep(r) == r

\* lines 119-121: the model is written into the caller's request object
NormalResolveModel(r) ==
    IF r.Model = "" THEN [r EXCEPT !.Model = NormalConfigModel] ELSE r

\* lines 117-141: the request for the backend library made of the request r,
\* whose model is resolved, and of the defaults
prepareRequest(r, params) ==
    LET fresh == [Model |-> r.Model, Messages |-> convertMessages(r.Messages),
                  Stream |-> FALSE, Temperature |-> 0, MaxTokens |-> 0]
        defaulted == applyDefaultParams(fresh, params)
    IN  [defaulted EXCEPT
           !.Temperature = IF r.Temperature # 0 THEN r.Temperature ELSE @,
           !.MaxTokens = IF r.MaxTokens # 0 THEN r.MaxTokens ELSE @]

\* lines 34-43
NormalClientComplete ==
    /\ sentBy = ""
    /\ clientReq' = NormalResolveModel(clientReq)
    /\ openaiReq' = prepareRequest(clientReq', defaultParams)
    /\ sentBy' = "NormalClient.Complete"
    /\ UNCHANGED <<callerReq, disabledParams, defaultParams, executeVars, bridgeVars, runsVars>>

\* lines 56-65
NormalClientCompleteStream ==
    /\ sentBy = ""
    /\ clientReq' = NormalResolveModel(clientReq)
    /\ openaiReq' = [prepareRequest(clientReq', defaultParams) EXCEPT !.Stream = TRUE]
    /\ sentBy' = "NormalClient.CompleteStream"
    /\ UNCHANGED <<callerReq, disabledParams, defaultParams, executeVars, bridgeVars, runsVars>>

\* a request is sent through one of the two clients
ClientsNext ==
    \/ ReasonerClientComplete
    \/ ReasonerClientCompleteStream
    \/ NormalClientComplete
    \/ NormalClientCompleteStream

\* the two clients as NewHybridPipeline builds them from the configuration:
\* the disabled parameters go to the deep-model client, the defaults to the
\* fast-model client
ClientsSpecInit ==
    /\ ExecuteIdle /\ BridgeInit /\ RunsInit
    /\ callerReq \in ParamRequests
    /\ clientReq = callerReq
    /\ disabledParams \in DisabledSets
    /\ defaultParams \in DefaultParamSets
    /\ sentBy = ""
    /\ openaiReq = NoOpenaiRequest

ClientsSpec == ClientsSpecInit /\ [][ClientsNext]_vars

(***************************************************************************)
(* Vocabulary of the properties                                            *)
(***************************************************************************)
Terminal == pc \in {"completed", "failed", "cancelled", "panicked"}

\* the positions of the history at which stage i was started
StartsOf(lg, i) == { k \in DOMAIN lg : lg[k].kind = "start" /\ lg[k].stage = i }

\* the stages in the order they were started
RECURSIVE StartedStages(_)
StartedStages(lg) ==
    IF lg = <<>> THEN <<>>
    ELSE IF lg[1].kind = "start" THEN <<lg[1].stage>> \o StartedStages(Tail(lg))
    ELSE StartedStages(Tail(lg))

IsPrefix(s, t) == Len(s) <= Len(t) /\ \A k \in DOMAIN s : s[k] = t[k]

\* a partial response carries visible content or reasoning text in its first choice
CarriesText(d) ==
    /\ d # NilResponse
    /\ d.Choices # <<>>
    /\ \/ d.Choices[1].Message.Content # ""
       \/ d.Choices[1].Message.ReasoningContent # <<>>

\* the reasoning segments of the first choices of a sequence of responses, in order
RECURSIVE ReasoningOf(_)
ReasoningOf(ds) ==
    IF ds = <<>> THEN <<>>
    ELSE (IF ds[1] # NilResponse /\ ds[1].Choices # <<>>
             THEN ds[1].Choices[1].Message.ReasoningContent
             ELSE <<>>) \o ReasoningOf(Tail(ds))

\* the responses the forwarding goroutine has put on filteredChan so far
OnFiltered == fwdRecv \o (IF fwd = "send" THEN <<fwdVal>> ELSE <<>>)

StageReturned(i) == \E k \in DOMAIN log : log[k].kind = "ok" /\ log[k].stage = i

(***************************************************************************)
(* C1: the stages of a run are started in the order Preprocessor,          *)
(* Reasoner, Postprocessor; a stage is started only right after the        *)
(* previous one returned successfully, and a started stage returns before  *)
(* any other event of the run, so no two stages are ever in progress.      *)
(***************************************************************************)
C1_StagesSequential ==
    /\ IsPrefix(StartedStages(log), <<1, 2, 3>>)
    /\ \A k \in DOMAIN log :
          log[k].kind = "start" =>
             /\ IF log[k].stage = 1
                   THEN k = 1
                   ELSE /\ k > 1
                        /\ log[k-1].kind = "ok"
                        /\ log[k-1].stage = log[k].stage - 1
             /\ k < Len(log) =>
                   /\ log[k+1].kind \in {"ok", "err", "panic"}
                   /\ log[k+1].stage = log[k].stage

C1_Witness ==
    /\ pc = "completed"
    /\ StartedStages(log) = <<1, 2, 3>>
    /\ Len(log) = 6

(***************************************************************************)
(* C2: once the Reasoner stage has returned, and in the response of a      *)
(* completed run, the reasoning chain is the concatenation, in arrival     *)
(* order, of the reasoning segments (of the first choice) of every         *)
(* response the deep-model stream emitted.                                 *)
(***************************************************************************)
C2_ReasoningChainIsStream ==
    /\ StageReturned(2) => payload.ReasoningChain = ReasoningOf(rawSent)
    /\ pc = "completed" =>
          result.resp.Choices[1].Message.ReasoningContent = ReasoningOf(rawSent)

C2_Witness ==
    /\ pc = "completed"
    /\ Len(rawSent) = 3
    /\ payload.ReasoningChain = <<"s1", "s2", "s3">>
    /\ \E k \in DOMAIN rawSent :
          CarriesText(rawSent[k]) /\ rawSent[k].Choices[1].Message.ReasoningContent = <<>>

C4_ForwardsAllInOrder ==
    fwd = "closed" => fwdRecv = SelectSeq(rawSent, CarriesText)

C4_Witness ==
    /\ fwd = "closed"
    /\ Len(rawSent) = 3
    /\ Len(fwdRecv) = 2
    /\ fwdRecv[1] # fwdRecv[2]
    /\ fwdRecv[1].Choices[1].Message.Content = ""

(***************************************************************************)
(* C5: a completed run returns no error and a response with exactly one    *)
(* choice: role "assistant", content the payload's final content,          *)
(* reasoning the payload's reasoning chain, finish reason "stop".          *)
(***************************************************************************)
C5_CompletedResponse ==
    pc = "completed" =>
       /\ result.err = ""
       /\ result.resp # NilResponse
       /\ Len(result.resp.Choices) = 1
       /\ result.resp.Choices[1].Message.Role = "assistant"
       /\ result.resp.Choices[1].Message.Content = payload.FinalContent
       /\ result.resp.Choices[1].Message.ReasoningContent = payload.ReasoningChain
       /\ result.resp.Choices[1].FinishReason = "stop"
       /\ \A i \in 1..3 : StageReturned(i)

C5_Witness ==
    /\ pc = "completed"
    /\ payload.FinalContent = "n2"
    /\ payload.IntermContent = "c2"
    /\ payload.ReasoningChain # <<>>
    /\ result.resp.Choices[1].Message.Content = "n2"

(***************************************************************************)
(* C6: when the context is done at the check before a stage, Execute       *)
(* returns the context's error and no response, and neither that stage nor *)
(* a later one is run: no stage is started and no client is called from    *)
(* then on.  A run cancelled before the Reasoner has opened no deep-model  *)
(* stream and made no Postprocessor call.                                  *)
(***************************************************************************)
C6_CancelBeforeStage ==
    /\ [][ (pc = "loop" /\ ctxErr # "") =>
              /\ pc' = "cancelled"
              /\ result' = [resp |-> NilResponse, err |-> ctxErr]
              /\ log' = log
              /\ clientCalls' = clientCalls
              /\ prod' = prod /\ fwd' = fwd ]_vars
    /\ [][ pc = "cancelled" =>
              /\ pc' = "cancelled"
              /\ log' = log
              /\ clientCalls' = clientCalls
              /\ result' = result ]_vars
    /\ [](pc = "cancelled" =>
              /\ result.err \in CtxErrors
              /\ result.err = ctxErr
              /\ result.resp = NilResponse
              /\ \A k \in DOMAIN log : log[k].stage < stageIdx
              /\ stageIdx <= 2 =>
                    /\ \A k \in DOMAIN clientCalls : clientCalls[k].method # "CompleteStream"
                    /\ Len(clientCalls) <= 1
                    /\ prod = "idle" /\ fwd = "idle")

C6_Witness ==
    /\ pc = "cancelled"
    /\ stageIdx = 2
    /\ StageReturned(1)
    /\ Len(clientCalls) = 1
    /\ result.err = "context deadline exceeded"

(***************************************************************************)
(* C7: a stage failure that the retry rule does not cover (any failure of  *)
(* the Reasoner or the Postprocessor, a Preprocessor failure without the   *)
(* temporary-error signature) ends the run in Failed: no response, the     *)
(* error "stage <name> failed: <stage error>", and no later stage.         *)
(***************************************************************************)
TemporarySignature == "model call: temporary error"

RetryEligible(ev) == ev.stage = 1 /\ ev.err = TemporarySignature

C7_FailureEndsRun ==
    \A k \in DOMAIN log :
       (log[k].kind = "err" /\ ~RetryEligible(log[k])) =>
          /\ k = Len(log)
          /\ pc = "failed"
          /\ result.resp = NilResponse
          /\ result.err =
               (CASE log[k].stage = 1 -> "stage normal_preprocessor failed: "
                  [] log[k].stage = 2 -> "stage reasoner_engine failed: "
                  [] log[k].stage = 3 -> "stage normal_postprocessor failed: ") \o log[k].err

C7_Witness ==
    /\ pc = "failed"
    /\ stageIdx = 3
    /\ result.err = "stage normal_postprocessor failed: model call: normal client error"
    /\ payload.ReasoningChain # <<>>

(***************************************************************************)
(* C8: a first Preprocessor attempt that fails with the temporary-error    *)
(* signature, the context being live, does not end the run: the Engine     *)
(* executes the Preprocessor once more.                                    *)
(***************************************************************************)
C8_TemporaryErrorIsRetried ==
    [][ ( /\ pc = "callNormal" /\ stageIdx = 1
          /\ Cardinality(StartsOf(log, 1)) = 1
          /\ ctxErr = ""
          /\ Len(log') = Len(log) + 1
          /\ log'[Len(log')].kind = "err"
          /\ log'[Len(log')].err = TemporarySignature )
        => pc' # "failed" ]_vars

(***************************************************************************)
(* C9: a run that ends in Failed after the Preprocessor's first attempt    *)
(* failed with the temporary-error signature, the context being live, has  *)
(* executed the Preprocessor exactly twice, has run neither the Reasoner   *)
(* nor the Postprocessor, and its error names the Preprocessor.            *)
(***************************************************************************)
C9_FailsAfterSecondAttempt ==
    ( /\ pc = "failed"
      /\ ctxErr = ""
      /\ Len(log) >= 2
      /\ log[2].kind = "err" /\ log[2].stage = 1 /\ log[2].err = TemporarySignature )
    => /\ Cardinality(StartsOf(log, 1)) = 2
       /\ StartsOf(log, 2) = {} /\ StartsOf(log, 3) = {}
       /\ \E e \in {"model call: " \o x : x \in NormalErrors \cup {"runtime error: client fault"}} \cup {ParseError} :
             result.err = "stage normal_preprocessor failed: " \o e

(***************************************************************************)
(* C10: in one run the Reasoner and the Postprocessor are executed at most *)
(* once each and the Preprocessor at most twice; after a failure that is   *)
(* not a Preprocessor failure with the temporary-error signature, and      *)
(* after a failure met with the context done, no stage is started again;   *)
(* no stage is started at all once the context is done.                    *)
(***************************************************************************)
C10_BoundedExecutions ==
    /\ [](/\ Cardinality(StartsOf(log, 1)) <= 2
          /\ Cardinality(StartsOf(log, 2)) <= 1
          /\ Cardinality(StartsOf(log, 3)) <= 1
          /\ \A k \in DOMAIN log :
                (log[k].kind = "err" /\ (~RetryEligible(log[k]) \/ log[k].ctx # "")) =>
                   \A j \in DOMAIN log : j > k => log[j].kind # "start")
    /\ [][ ctxErr # "" => StartedStages(log') = StartedStages(log) ]_vars

C10_Witness ==
    /\ pc = "failed"
    /\ stageIdx = 2
    /\ ctxErr = ""
    /\ Cardinality(StartsOf(log, 1)) = 1
    /\ Cardinality(StartsOf(log, 2)) = 1
    /\ log[Len(log)].err = "model call: reasoner client error"

(***************************************************************************)
(* Vocabulary of the properties of the outcome of a run                    *)
(***************************************************************************)
\* Execute returned to its caller
Returned == pc \in {"completed", "failed", "cancelled"}

\* the answer the last client call got
LastAnswer == answers[Len(answers)]

\* the error e carries the context error c: it is c, or c wrapped by a stage
CarriesCtxError(e, c) ==
    \/ e = c
    \/ \E n \in {"normal_preprocessor", "reasoner_engine", "normal_postprocessor"} :
          e = "stage " \o n \o " failed: model call: " \o c

(***************************************************************************)
(* C11: every run that has ended has returned exactly one of a response    *)
(* and an error, and a response only after all three stages returned       *)
(* successfully.                                                           *)
(***************************************************************************)
C11_ResponseOrError ==
    Terminal =>
       /\ (result.resp # NilResponse) # (result.err # "")
       /\ result.resp # NilResponse => \A i \in 1..3 : StageReturned(i)

(***************************************************************************)
(* C12: when the client answers a blocking call with a response that has   *)
(* no choice, the run fails with an error and no response; the stage does  *)
(* not fault on the missing first choice.                                  *)
(***************************************************************************)
C12_EmptyChoicesIsError ==
    ( /\ answers # <<>>
      /\ clientCalls[Len(answers)].method = "Complete"
      /\ LastAnswer.kind = "resp"
      /\ LastAnswer.resp # NilResponse
      /\ LastAnswer.resp.Choices = <<>> )
    => /\ pc = "failed"
       /\ result.resp = NilResponse
       /\ result.err # ""

(***************************************************************************)
(* C13: once Execute has returned from a run that opened a deep-model      *)
(* stream, the producer and the forwarding goroutine have ended and both   *)
(* channels are closed; and whenever the context is done while the         *)
(* Reasoner is receiving, both goroutines end and both channels get        *)
(* closed.                                                                 *)
(***************************************************************************)
C13_CancelledStreamWindsUp ==
    /\ []((Returned /\ prod # "idle") => (prod = "closed" /\ fwd = "closed"))
    /\ (pc = "streaming" /\ ctxErr # "") ~> (prod = "closed" /\ fwd = "closed")

C13_Witness ==
    /\ pc = "cancelled"
    /\ ctxErr = "context canceled"
    /\ prod = "closed"
    /\ fwd = "closed"
    /\ Len(rawSent) = 1
    /\ fwdRecv = rawSent

(***************************************************************************)
(* C14: when a client call returns the error of the context that was       *)
(* cancelled during it, or the Reasoner returns from a stream during which *)
(* the context was cancelled, no later stage is started and Execute        *)
(* returns no response and an error that carries the context's error.      *)
(***************************************************************************)
C14_CancelDuringStage ==
    \A k \in DOMAIN log :
       /\ ( /\ log[k].kind = "err"
            /\ log[k].ctx # ""
            /\ log[k].err = "model call: " \o log[k].ctx )
          => /\ k = Len(log)
             /\ pc = "failed"
             /\ result.resp = NilResponse
             /\ CarriesCtxError(result.err, log[k].ctx)
       /\ ( /\ log[k].kind = "ok"
            /\ log[k].stage = 2
            /\ log[k].ctx # "" )
          => /\ k = Len(log)
             /\ StartsOf(log, 3) = {}
             /\ pc \in {"loop", "cancelled"}
             /\ pc = "cancelled" =>
                   /\ result.resp = NilResponse
                   /\ CarriesCtxError(result.err, log[k].ctx)

C14_Witness ==
    /\ pc = "cancelled"
    /\ stageIdx = 3
    /\ log[Len(log)].kind = "ok"
    /\ log[Len(log)].ctx = "context deadline exceeded"
    /\ result.err = "context deadline exceeded"
    /\ payload.ReasoningChain # <<>>

(***************************************************************************)
(* C15: filteredChan is closed only by the forwarding goroutine, between   *)
(* two receives, once the client's channel is closed; it then stays        *)
(* closed, and every response that was delivered on the client's channel   *)
(* has been forwarded to the consumer or dropped as carrying no text.      *)
(***************************************************************************)
C15_ClosingOrder ==
    /\ [][ (fwd' = "closed" /\ fwd # "closed") => (prod = "closed" /\ fwd = "recv") ]_vars
    /\ [][ fwd = "closed" => (fwd' = "closed" /\ prod' = "closed") ]_vars
    /\ [][ prod = "closed" => prod' = "closed" ]_vars
    /\ [](fwd = "closed" =>
             /\ prod = "closed"
             /\ Len(fwdRecv) + Len(SelectSeq(rawSent, LAMBDA d : ~CarriesText(d)))
                   = Len(rawSent))

C15_Witness ==
    /\ fwd = "closed"
    /\ prod = "closed"
    /\ pc = "streaming"
    /\ Len(rawSent) = 2
    /\ Len(fwdRecv) = 1
    /\ ~CarriesText(rawSent[2])

(***************************************************************************)
(* C17: when the client faults in its stream-opening call, the fault is    *)
(* turned into an error of the call: the run fails with an error, it does  *)
(* not die of the fault.                                                   *)
(***************************************************************************)
C17_StreamFaultCaught ==
    ( /\ answers # <<>>
      /\ clientCalls[Len(answers)].method = "CompleteStream"
      /\ LastAnswer.kind = "panic" )
    => /\ pc = "failed"
       /\ result.resp = NilResponse
       /\ result.err # ""

(***************************************************************************)
(* C16: a call of CallNormal or CallReasoner during which the client       *)
(* faulted returns no response and the error "runtime error: <fault>";     *)
(* the read lock it took is released like that of every returned call, and *)
(* every caller that has not called yet can enter the Bridge.              *)
(***************************************************************************)
C16_ClientFaultRecovered ==
    /\ \A c \in Callers :
          ( /\ calls[c].method \in {"CallNormal", "CallReasoner"}
            /\ calls[c].answer.kind = "panic" )
          => /\ calls[c].pc = "done"
             /\ calls[c].ret.resp = NilResponse
             /\ calls[c].ret.err = "runtime error: client fault"
    /\ mu.readers = Cardinality({c \in Callers : calls[c].pc = "inClient"})
    /\ \A c \in Callers :
          calls[c].pc = "idle" =>
             ENABLED BridgeCall(c, "CallNormal") /\ ENABLED BridgeCall(c, "CallReasoner")

C16_Witness ==
    /\ calls[1].pc = "done" /\ calls[1].method = "CallReasoner"
    /\ calls[1].answer.kind = "panic"
    /\ calls[1].ret.err = "runtime error: client fault"
    /\ calls[2].pc = "inClient" /\ calls[2].method = "CallNormal"
    /\ mu.readers = 1

(***************************************************************************)
(* C19: on one shared Bridge no call waits for another: a caller can enter *)
(* whatever the other calls are doing; a call of CallNormal or             *)
(* CallReasonerStream that the client answered without error returns       *)
(* without error; every call returns, and every returned stream is closed  *)
(* and drained.                                                            *)
(***************************************************************************)
C19_ConcurrentCalls ==
    /\ [](\A c \in Callers :
            /\ calls[c].pc = "idle" => \A m \in {"CallNormal", "CallReasonerStream"} : ENABLED BridgeCall(c, m)
            /\ (calls[c].answer.kind = "resp" /\ calls[c].method = "CallNormal") =>
                  (calls[c].ret.err = "" /\ calls[c].ret.resp = calls[c].answer.resp)
            /\ calls[c].answer.kind = "chan" =>
                  (calls[c].ret.err = "" /\ calls[c].pc \in {"streamOpen", "drained"}))
    /\ \A c \in Callers :
          /\ (calls[c].pc = "inClient") ~> (calls[c].pc \in {"done", "streamOpen", "drained", "faulted"})
          /\ (calls[c].pc = "streamOpen") ~> (calls[c].pc = "drained")

C19_Witness ==
    /\ calls[1].pc = "inClient" /\ calls[1].method = "CallNormal"
    /\ calls[2].pc = "streamOpen" /\ calls[2].taken = 1
    /\ mu.readers = 1

(***************************************************************************)
(* C18: with several runs in flight, the payload of a run, all that the    *)
(* run read from it to build a prompt, and the response the run returned   *)
(* hold no data but what the backends produced for that very run.          *)
(***************************************************************************)
\* the texts the backends produce for run r
OwnText(r) == {"", "r" \o ToString(r) \o ":n", "r" \o ToString(r) \o ":c", "r" \o ToString(r) \o ":s"}

C18_RunsKeepOwnPayload ==
    \A r \in RunIds :
       /\ payloads[r].IntermContent \in OwnText(r)
       /\ payloads[r].FinalContent \in OwnText(r)
       /\ \A k \in DOMAIN payloads[r].ReasoningChain : payloads[r].ReasoningChain[k] \in OwnText(r)
       /\ runs[r].reads \subseteq OwnText(r)
       /\ runs[r].pc = "completed" =>
             /\ runs[r].result.resp.Choices[1].Message.Content = payloads[r].FinalContent
             /\ runs[r].result.resp.Choices[1].Message.ReasoningContent = payloads[r].ReasoningChain
             /\ Len(payloads[r].ReasoningChain) = runs[r].taken

C18_Witness ==
    /\ runs[1].pc = "completed"
    /\ runs[1].result.resp.Choices[1].Message.ReasoningContent = <<"r1:s", "r1:s">>
    /\ runs[2].pc = "postCall"
    /\ runs[2].reads = {"r2:n", "r2:c", "r2:s"}
    /\ payloads[2].ReasoningChain = <<"r2:s">>

(***************************************************************************)
(* C20: the request the deep-model client hands to the backend, by         *)
(* Complete and by CompleteStream, names no disabled parameter.            *)
(***************************************************************************)
C20_DisabledParamsAbsent ==
    sentBy # "" => WireNames(openaiReq) \cap disabledParams = {}

(***************************************************************************)
(* C21: in the request the fast-model client hands to the backend, a       *)
(* field (temperature, max_tokens) that the caller left zero and for which *)
(* the configuration holds a default carries that default, and a field the *)
(* caller set to a non-zero value carries the caller's value.              *)
(***************************************************************************)
C21_DefaultsInjected ==
    sentBy \in {"NormalClient.Complete", "NormalClient.CompleteStream"} =>
       /\ openaiReq.Temperature =
             IF callerReq.Temperature # 0 THEN callerReq.Temperature
             ELSE IF "temperature" \in DOMAIN defaultParams THEN defaultParams["temperature"].val
             ELSE 0
       /\ openaiReq.MaxTokens =
             IF callerReq.MaxTokens # 0 THEN callerReq.MaxTokens
             ELSE IF "max_tokens" \in DOMAIN defaultParams THEN defaultParams["max_tokens"].val
             ELSE 0

(***************************************************************************)
(* C24: the request a client hands to the backend names the client's       *)
(* configured model when the caller's request named no model, and the      *)
(* caller's model otherwise.                                               *)
(***************************************************************************)
C24_ModelResolved ==
    sentBy # "" =>
       openaiReq.Model =
          IF callerReq.Model # "" THEN callerReq.Model
          ELSE IF sentBy \in {"Complete", "CompleteStream"} THEN "gpt-4" ELSE "gpt-3.5-turbo"

C24_Witness ==
    /\ sentBy = "NormalClient.Complete"
    /\ callerReq.Model = ""
    /\ openaiReq.Model = "gpt-3.5-turbo"
    /\ clientReq.Model = "gpt-3.5-turbo"

(***************************************************************************)
(* C22: with the user message "What is 2+2?" and the mock clients, the     *)
(* response of a completed run carries the final content                   *)
(* "final:structured:What is 2+2?" and the reasoning chain <<"s1", "s2">>. *)
(***************************************************************************)
C22_ExampleAsStated ==
    pc = "completed" /\ MockInput(req) = "What is 2+2?" =>
       /\ result.resp.Choices[1].Message.Content = "final:structured:What is 2+2?"
       /\ result.resp.Choices[1].Message.ReasoningContent = <<"s1", "s2">>

(***************************************************************************)
(* C22, amended: with the user message "What is 2+2?" and the mock         *)
(* clients, the Preprocessor's answer "structured:What is 2+2?" is what    *)
(* the deep-model mock is asked about, and the response of a completed run *)
(* carries the final content "final:r2", the fast-model mock's answer to   *)
(* the last streamed content, and the reasoning chain <<"s1", "s2">>.      *)
(***************************************************************************)
C22_ExampleRun ==
    pc = "completed" /\ MockInput(req) = "What is 2+2?" =>
       /\ Len(clientCalls) = 3
       /\ MockInput(clientCalls[2].req) = "structured:What is 2+2?"
       /\ MockInput(clientCalls[3].req) = "r2"
       /\ result.err = ""
       /\ result.resp.Choices[1].Message.Content = "final:r2"
       /\ result.resp.Choices[1].Message.ReasoningContent = <<"s1", "s2">>

C22_Witness ==
    /\ pc = "completed"
    /\ MockInput(req) = "What is 2+2?"
    /\ Len(fwdRecv) = 2
    /\ result.resp.Choices[1].Message.Content = "final:r2"

(***************************************************************************)
(* C23: the request id changes only in the step that starts Execute, and   *)
(* only from absent to a generated, non-empty id; an id the request        *)
(* carries, supplied by the caller or generated, is the same after every   *)
(* step of the run.                                                        *)
(***************************************************************************)
C23_RequestIdAssignedOnce ==
    [][ /\ req.RequestID # "" => req'.RequestID = req.RequestID
        /\ req'.RequestID # req.RequestID =>
              /\ pc = "created" /\ pc' = "loop"
              /\ req'.RequestID # "" ]_vars

C23_Witness ==
    /\ pc = "completed"
    /\ req.RequestID = "req_now"
    /\ Len(clientCalls) = 3

\* the visible content of a forwarded response
VisibleContent(d) == d.Choices[1].Message.Content

\* the positions of the responses of ds that carry non-empty visible content
WithContent(ds) == { k \in DOMAIN ds : VisibleContent(ds[k]) # "" }

\* the largest element of a non-empty set of numbers
Last(S) == CHOOSE k \in S : \A j \in S : j <= k

(***************************************************************************)
(* C25: once the Reasoner has returned, the intermediate content is the    *)
(* visible content of the last response it received from the filtered      *)
(* stream, whatever the earlier responses carried.                         *)
(***************************************************************************)
C25_LastWriteWins ==
    StageReturned(2) /\ fwdRecv # <<>> =>
       payload.IntermContent = VisibleContent(fwdRecv[Len(fwdRecv)])

C25_Witness ==
    /\ StageReturned(2)
    /\ Len(fwdRecv) >= 2
    /\ VisibleContent(fwdRecv[1]) = "c1"
    /\ VisibleContent(fwdRecv[Len(fwdRecv)]) = "c2"
    /\ payload.IntermContent = "c2"

(***************************************************************************)
(* C26: once the Reasoner has returned from a stream of which at least one *)
(* response carried non-empty visible content, the intermediate content is *)
(* the content of the last such response, also when responses that carry   *)
(* reasoning only came after it.                                           *)
(***************************************************************************)
C26_LastNonEmptyContent ==
    StageReturned(2) /\ WithContent(fwdRecv) # {} =>
       payload.IntermContent = VisibleContent(fwdRecv[Last(WithContent(fwdRecv))])

\* the stage whose Execute is in progress is stage i
InStage(i) == stageIdx = i /\ pc \in {"callNormal", "callStream", "streaming"}

\* the step is one of the producer or of the forwarding goroutine alone
RelayStep ==
    \/ prod' # prod
    \/ rawSent' # rawSent
    \/ fwd # "closed" /\ fwd' = "closed"

(***************************************************************************)
(* C27: in every step of a run, the reasoning chain changes only while the *)
(* Reasoner is in progress and only by growing at its end; the             *)
(* intermediate content changes only while the Preprocessor or the         *)
(* Reasoner is in progress; the final content changes only while the       *)
(* Postprocessor is in progress, in the step that ends the run; the        *)
(* caller's request changes in no step of a stage; and no step of the      *)
(* producer or of the forwarding goroutine changes the payload.            *)
(***************************************************************************)
C27_FieldOwnership ==
    [][ /\ payload'.ReasoningChain # payload.ReasoningChain =>
              /\ InStage(2)
              /\ IsPrefix(payload.ReasoningChain, payload'.ReasoningChain)
        /\ payload'.IntermContent # payload.IntermContent => InStage(1) \/ InStage(2)
        /\ payload'.FinalContent # payload.FinalContent =>
              /\ InStage(3)
              /\ ~StageReturned(3)
              /\ pc' = "completed"
        /\ req' # req => pc = "created"
        /\ RelayStep => payload' = payload ]_vars

C27_Witness ==
    /\ pc = "completed"
    /\ Len(payload.ReasoningChain) >= 2
    /\ payload.IntermContent # ""
    /\ payload.FinalContent # ""

(***************************************************************************)
(* C28: when a stage has returned an error, every field of the payload has *)
(* the value the stage found: nothing for the Preprocessor, the            *)
(* Preprocessor's answer and no reasoning for the Reasoner, and what the   *)
(* Reasoner collected from the filtered stream for the Postprocessor; the  *)
(* final content is empty in each case.                                    *)
(***************************************************************************)
C28_FailedStageLeavesPayload ==
    pc = "failed" =>
       /\ payload.FinalContent = ""
       /\ stageIdx = 1 => payload = NewPayload
       /\ stageIdx = 2 =>
             /\ payload.ReasoningChain = <<>>
             /\ payload.IntermContent = VisibleContent(answers[1].resp)
       /\ stageIdx = 3 =>
             /\ payload.ReasoningChain = ReasoningOf(fwdRecv)
             /\ payload.IntermContent =
                   IF fwdRecv = <<>> THEN "" ELSE VisibleContent(fwdRecv[Len(fwdRecv)])

C28_Witness ==
    /\ pc = "failed"
    /\ stageIdx = 2
    /\ LastAnswer.kind = "err"
    /\ payload.IntermContent = "n1"

\* the deep-model client answered the stream call of the run with an error
StreamCallFailed == Len(answers) >= 2 /\ answers[2].kind = "err"

RelayCanMove ==
    \/ prod \in {"loop", "recv"}
    \/ prod = "send" /\ fwd = "recv"
    \/ prod = "closed" /\ fwd = "recv"
    \/ fwd \in {"send", "closed"}

(***************************************************************************)
(* C30: while the Reasoner is on a stream, one of the three parties of the *)
(* relay can always take a step; and once the producer has closed the      *)
(* client's channel, the forwarding goroutine closes filteredChan and the  *)
(* Reasoner returns without an error.                                      *)
(***************************************************************************)
C30_RelayCompletes ==
    /\ [](pc = "streaming" => RelayCanMove)
    /\ (pc = "streaming" /\ prod = "closed") ~> (fwd = "closed" /\ StageReturned(2))

C30_Witness ==
    /\ StageReturned(2)
    /\ prod = "closed" /\ fwd = "closed"
    /\ ~CtxDone
    /\ Len(rawSent) = 3 /\ Len(fwdRecv) = 1

\* stage i has ended otherwise than by returning nil
StageBroke(i) ==
    \E k \in DOMAIN log : log[k].kind \in {"err", "panic"} /\ log[k].stage = i

\* what the Reasoner, the consumer of the filtered channel, can see of the relay
ConsumerView == <<fwd, fwdVal, fwdRecv>>

(***************************************************************************)
(* C31: whichever way the backend's stream ended (end of stream, a chunk   *)
(* that did not decode, a backend error), the step in which it ended       *)
(* closed the client's channel and changed nothing else, so that what the  *)
(* Reasoner sees is the same in the three cases; the Reasoner does not     *)
(* fail, and once it has returned the filtered channel is closed and the   *)
(* payload holds the reasoning and the content of the responses that were  *)
(* forwarded before.                                                       *)
(***************************************************************************)
C31_TerminationIndistinguishable ==
    /\ [][ recvErr' # recvErr =>
              /\ recvErr = "" /\ prod' = "closed"
              /\ ConsumerView' = ConsumerView
              /\ <<pc, stageIdx, payload, lastContent, result, log>>'
                    = <<pc, stageIdx, payload, lastContent, result, log>> ]_vars
    /\ [](recvErr # "" =>
              /\ prod = "closed"
              /\ ~StageBroke(2)
              /\ StageReturned(2) =>
                    /\ fwd = "closed"
                    /\ payload.ReasoningChain = ReasoningOf(fwdRecv)
                    /\ payload.IntermContent =
                          IF fwdRecv = <<>> THEN "" ELSE VisibleContent(fwdRecv[Len(fwdRecv)]))

C31_Witness ==
    /\ recvErr = "decode error"
    /\ StageReturned(2)
    /\ ~CtxDone
    /\ Len(fwdRecv) = 2
    /\ payload.ReasoningChain # <<>>

\* the user message and the system message of the k-th client call
UserOf(k) == clientCalls[k].req.Messages[2].Content

SystemOf(k) == clientCalls[k].req.Messages[1].Content

\* what the Reasoner left: the reasoning relayed to it and the content of the
\* last response relayed to it
RelayedChain == ReasoningOf(fwdRecv)

RelayedContent == IF fwdRecv = <<>> THEN "" ELSE VisibleContent(fwdRecv[Len(fwdRecv)])

(***************************************************************************)
(* C32: the user message of the Reasoner's request is the content the      *)
(* fast model answered to the Preprocessor; the Postprocessor's request    *)
(* has the content the Reasoner left as its user message and the prompt    *)
(* rendered with the whole reasoning chain and that content as its system  *)
(* message; and the final content of a completed run is the content the    *)
(* fast model answered to the Postprocessor.                               *)
(***************************************************************************)
C32_DataFlow ==
    /\ Len(clientCalls) >= 2 =>
          /\ clientCalls[2].client = "reasoner"
          /\ UserOf(2) = VisibleContent(answers[1].resp)
          /\ SystemOf(2) = "reason:" \o VisibleContent(answers[1].resp)
    /\ Len(clientCalls) >= 3 =>
          /\ clientCalls[3].client = "normal"
          /\ UserOf(3) = RelayedContent
          /\ SystemOf(3) = "post:[" \o JoinStrings(RelayedChain) \o "]" \o RelayedContent
    /\ pc = "completed" =>
          /\ payload.FinalContent = VisibleContent(answers[3].resp)
          /\ result.resp.Choices[1].Message.Content = VisibleContent(answers[3].resp)

C32_Witness ==
    /\ pc = "completed"
    /\ UserOf(2) = "n1"
    /\ UserOf(3) = "c2"
    /\ Len(RelayedChain) = 3
    /\ payload.FinalContent = "n2"

\* the positions of the user-role messages of a request
UserPositions(r) == { k \in DOMAIN r.Messages : r.Messages[k].Role = "user" }

(***************************************************************************)
(* C33: the user message of the Preprocessor's request, and the text its   *)
(* prompt is rendered with, is the content of the last message of role     *)
(* user in the caller's request.                                           *)
(***************************************************************************)
C33_LastUserMessage ==
    Len(clientCalls) >= 1 /\ UserPositions(req) # {} =>
       /\ UserOf(1) = req.Messages[Last(UserPositions(req))].Content
       /\ SystemOf(1) = "pre:" \o req.Messages[Last(UserPositions(req))].Content

(***************************************************************************)
(* C34: every request handed to the fast-model client names the model      *)
(* "gpt-3.5-turbo" and every request handed to the deep-model client the   *)
(* model "gpt-4", whatever model the caller's request names.               *)
(***************************************************************************)
C34_PinnedModels ==
    \A k \in DOMAIN clientCalls :
       clientCalls[k].req.Model =
          IF clientCalls[k].client = "normal" THEN "gpt-3.5-turbo" ELSE "gpt-4"

C34_Witness ==
    /\ req.Model = "hybrid"
    /\ Len(clientCalls) = 3
    /\ clientCalls[1].req.Model = "gpt-3.5-turbo"
    /\ clientCalls[2].req.Model = "gpt-4"
    /\ clientCalls[3].req.Model = "gpt-3.5-turbo"

(***************************************************************************)
(* C35: when the Reasoner has returned from a stream of which nothing was  *)
(* forwarded, it has returned without an error, the reasoning chain is     *)
(* empty as before the stage, and the intermediate content is the empty    *)
(* text: the Postprocessor's request carries the empty text and not the    *)
(* Preprocessor's answer.                                                  *)
(***************************************************************************)
C35_EmptyStreamOverwrites ==
    StageReturned(2) /\ fwdRecv = <<>> =>
       /\ ~StageBroke(2)
       /\ payload.ReasoningChain = <<>>
       /\ payload.IntermContent = ""
       /\ Len(clientCalls) >= 3 => UserOf(3) = "" /\ SystemOf(3) = "post:[]"

C35_Witness ==
    /\ StageReturned(2)
    /\ fwdRecv = <<>>
    /\ Len(rawSent) = 2
    /\ VisibleContent(answers[1].resp) = "n1"
    /\ Len(clientCalls) = 3
    /\ payload.IntermContent = ""

\* the client's channel, or filteredChan, is closed
InternalClosed == prod = "closed"

FilteredClosed == fwd = "closed"

(***************************************************************************)
(* C36: in every step of the relay, cancellation included: once the        *)
(* client's channel is closed it stays closed and nothing more is          *)
(* delivered on it, and the same holds of filteredChan; the step that      *)
(* closes the client's channel is a step of the producer alone and the     *)
(* step that closes filteredChan is a step of the forwarding goroutine     *)
(* alone, taken when the client's channel is closed.                       *)
(***************************************************************************)
C36_ChannelSafety ==
    [][ /\ InternalClosed => InternalClosed' /\ rawSent' = rawSent /\ prodVal' = prodVal
        /\ FilteredClosed => FilteredClosed' /\ fwdRecv' = fwdRecv /\ fwdVal' = fwdVal
        /\ ~InternalClosed /\ InternalClosed' =>
              /\ prod \in {"loop", "recv", "send"}
              /\ <<fwd, fwdVal, rawSent, fwdRecv, pc, payload, lastContent>>'
                    = <<fwd, fwdVal, rawSent, fwdRecv, pc, payload, lastContent>>
        /\ ~FilteredClosed /\ FilteredClosed' =>
              /\ fwd = "recv" /\ InternalClosed
              /\ <<prod, prodVal, rawSent, fwdRecv, pc, payload, lastContent>>'
                    = <<prod, prodVal, rawSent, fwdRecv, pc, payload, lastContent>> ]_vars

C36_Witness ==
    /\ InternalClosed /\ FilteredClosed
    /\ CtxDone
    /\ Len(rawSent) = 2 /\ Len(fwdRecv) = 2
    /\ StageReturned(2)

\* the responses the producer has made and that were neither dropped by the
\* forwarding goroutine nor received by the Reasoner
InFlight ==
    (IF prod = "send" THEN 1 ELSE 0) + (IF fwd = "send" THEN 1 ELSE 0)

\* the delivered responses that pass the filter
RECURSIVE Passed(_)
Passed(ds) ==
    IF ds = <<>> THEN <<>>
    ELSE (IF CarriesText(ds[1]) THEN <<ds[1]>> ELSE <<>>) \o Passed(Tail(ds))

(***************************************************************************)
(* C37: the forwarding goroutine takes a response from the producer only   *)
(* when it holds none, and the producer offers a response only after the   *)
(* one before was taken; so the responses that passed the filter are those *)
(* the Reasoner received plus at most the one being forwarded, and at most *)
(* two responses are in flight.                                            *)
(***************************************************************************)
C37_Backpressure ==
    /\ [][ /\ rawSent' # rawSent =>
                /\ fwd = "recv" /\ prod = "send"
                /\ rawSent' = Append(rawSent, prodVal)
                /\ prod' = "loop"
          /\ prod' = "send" /\ prod # "send" => prod = "recv" ]_vars
    /\ [](/\ InFlight <= 2
          /\ Passed(rawSent) = fwdRecv \o (IF fwd = "send" THEN <<fwdVal>> ELSE <<>>))

C37_Witness ==
    /\ prod = "send" /\ fwd = "send"
    /\ Len(rawSent) = 2 /\ Len(fwdRecv) = 1
    /\ pc = "streaming"

(***************************************************************************)
(* C38: no call is ever made on the blocking Complete of the deep-model    *)
(* client; the calls of a run are, in this order, Complete of the          *)
(* fast-model client, CompleteStream of the deep-model client and Complete *)
(* of the fast-model client, so that a completed run has made exactly      *)
(* these three calls, for the Preprocessor, the Reasoner and the           *)
(* Postprocessor.                                                          *)
(***************************************************************************)
C38_ClientCallsOfRun ==
    /\ \A k \in DOMAIN clientCalls :
          ~(clientCalls[k].client = "reasoner" /\ clientCalls[k].method = "Complete")
    /\ IsPrefix([k \in DOMAIN clientCalls |-> <<clientCalls[k].client, clientCalls[k].method>>],
                << <<"normal", "Complete">>, <<"reasoner", "CompleteStream">>,
                   <<"normal", "Complete">> >>)
    /\ pc = "completed" =>
          /\ Len(clientCalls) = 3
          /\ SystemOf(1) = "pre:" \o req.Messages[Len(req.Messages)].Content
          /\ SystemOf(3) = "post:[" \o JoinStrings(payload.ReasoningChain) \o "]"
                               \o payload.IntermContent

C38_Witness ==
    /\ pc = "completed"
    /\ ~CtxDone
    /\ Len(clientCalls) = 3
    /\ Len(answers) = 3
    /\ clientCalls[2].method = "CompleteStream"

====
